---- MODULE Spec2Model ----
(***************************************************************************)
(* Lazy, chunked reading of on-disk arrays (anndata lazy_methods.py) and   *)
(* the typed column wrappers (experimental/backed/_lazy_arrays.py).        *)
(*                                                                         *)
(* The specifications share the module's variables; each one drives one    *)
(* part of the program and leaves the other parts in their initial state:  *)
(*   SpecLayout  compute_chunk_layout_for_axis_shape on bounded inputs     *)
(*   SpecH5      concurrent make_dask_chunk calls through maybe_open_h5    *)
(*   SpecRead    the lazy array readers (dispatch, then materialization)   *)
(*   SpecCat     CategoricalArray construction and indexing                *)
(*   SpecMasked  MaskedArray construction and indexing                     *)
(*   SpecFrame   read_dataframe, the lazy table assembly                   *)
(*   SpecNS      register_anndata_namespace and namespace attribute access *)
(***************************************************************************)
EXTENDS Integers, Sequences, FiniteSets, TLC

VARIABLES
    larg,           \* SpecLayout: the (chunk_axis_shape, full_axis_shape) arguments
    lout,           \* SpecLayout: [done, chunk] the returned tuple once computed
    pc,             \* SpecH5: position of each make_dask_chunk call
    path_or_group,  \* SpecH5: "Path" (single file) or "ZarrGroup" (open store handle)
    block_info,     \* SpecH5: "None" or "info"
    file,           \* SpecH5: the h5py.File of the call's scope (0: none)
    how,            \* SpecH5: how the call left (or is leaving) the scope
    files,          \* SpecH5: every h5py.File connection ever created
    store,          \* SpecH5: the caller's long-lived directory-store handle
    elem,           \* SpecRead: the on-disk element [backend, enc, shape, zchunk]
    chunks,         \* SpecRead: the caller's override [given, val]
    rpc,            \* SpecRead: "start", "returned" or "raised"
    result,         \* SpecRead: what the reader returned or raised
    constructed,    \* SpecRead: deferred arrays constructed so far
    bulk_reads,     \* SpecRead: reads of the element's bulk data so far
    nmat,           \* SpecRead: chunks materialized so far
    settings,       \* SpecCat: settings.should_remove_unused_categories
    cat_store,      \* SpecCat: the stored group [codes, categories, ordered]
    cat,            \* SpecCat: the CategoricalArray object
    cat_out,        \* SpecCat: the last __getitem__ result, and how many ran
    null_store,     \* SpecMasked: the stored group [values, has_mask, mask]
    masked,         \* SpecMasked: the MaskedArray object
    masked_out,     \* SpecMasked: the last __getitem__ result, and how many ran
    df_elem,        \* SpecFrame: the stored group [name, column_order, index, kinds]
    df_pc,          \* SpecFrame: "start" or "returned"
    df_reads,       \* SpecFrame: read_elem calls made, per child name
    df_table,       \* SpecFrame: the returned table, entries in insertion order
    ns_cls,         \* SpecNS: the namespace class held by the descriptor (0: none)
    ns_reg,         \* SpecNS: outcome of the last registration
    ns_objs,        \* SpecNS: namespace objects created, [adata, cls] each
    ns_dict,        \* SpecNS: per AnnData instance, its __dict__ entry (0: none)
    ns_inits,       \* SpecNS: per AnnData instance, initializer runs
    ns_acc,         \* SpecNS: per AnnData instance, attribute accesses made
    ns_rets,        \* SpecNS: per AnnData instance, the objects accesses returned
    ns_last         \* SpecNS: the last access, the class the descriptor held, the result

layoutVars == <<larg, lout>>
h5Vars == <<pc, path_or_group, block_info, file, how, files, store>>
readVars == <<elem, chunks, rpc, result, constructed, bulk_reads, nmat>>
catVars == <<settings, cat_store, cat, cat_out>>
maskedVars == <<null_store, masked, masked_out>>
frameVars == <<df_elem, df_pc, df_reads, df_table>>
nsVars == <<ns_cls, ns_reg, ns_objs, ns_dict, ns_inits, ns_acc, ns_rets, ns_last>>
vars == <<larg, lout, pc, path_or_group, block_info, file, how, files, store,
          elem, chunks, rpc, result, constructed, bulk_reads, nmat,
          settings, cat_store, cat, cat_out, null_store, masked, masked_out,
          df_elem, df_pc, df_reads, df_table,
          ns_cls, ns_reg, ns_objs, ns_dict, ns_inits, ns_acc, ns_rets, ns_last>>

(***************************************************************************)
(* Bounds                                                                  *)
(***************************************************************************)
MaxStride == 6
MaxExtent == 20
NTasks == 3
MaxDim == 1
ExampleCols == 50
ExampleRows == 100
BigExtent == 1001
MaxMaterialize == 2
MaxCats == 3
MaxLen == 3
MaxIndexOps == 2
MaxCols == 2
NInstances == 2
MaxAccesses == 3
MaxNamespaces == 2

(***************************************************************************)
(* Python / numpy arithmetic on integers                                   *)
(***************************************************************************)
\* np.divmod: floor division; the remainder takes the sign of the divisor.
FloorDiv(a, b) ==
    IF b > 0 THEN a \div b ELSE -((a + (-b) - 1) \div (-b))

\* (x,) * n : the empty tuple when n <= 0.
TupleTimes(x, n) == [i \in 1..n |-> x]

RECURSIVE SumSeq(_)
SumSeq(s) ==
    IF Len(s) = 0 THEN 0
    ELSE IF Len(s) = 1 THEN s[1]
    ELSE LET h == Len(s) \div 2
         IN  SumSeq(SubSeq(s, 1, h)) + SumSeq(SubSeq(s, h + 1, Len(s)))

(***************************************************************************)
(* compute_chunk_layout_for_axis_shape                                     *)
(***************************************************************************)
\* The full strides alone, without the remainder chunk.
LayoutDropRest(chunk_axis_shape, full_axis_shape) ==
    TupleTimes(chunk_axis_shape, FloorDiv(full_axis_shape, chunk_axis_shape))

\* n_strides copies of the stride, and the remainder when there is one.
compute_chunk_layout_for_axis_shape(chunk_axis_shape, full_axis_shape) ==
    LET n_strides == FloorDiv(full_axis_shape, chunk_axis_shape)
        rest == full_axis_shape - n_strides * chunk_axis_shape
        chunk == TupleTimes(chunk_axis_shape, n_strides)
    IN  IF rest > 0 THEN Append(chunk, rest) ELSE chunk

InitLayoutIdle ==
    /\ larg = [stride |-> 1, extent |-> 0]
    /\ lout = [done |-> FALSE, chunk |-> <<>>]

InitLayout ==
    /\ larg \in [stride : 1..MaxStride, extent : 0..MaxExtent]
    /\ lout = [done |-> FALSE, chunk |-> <<>>]

ComputeLayout ==
    /\ ~lout.done
    /\ lout' = [done |-> TRUE,
                chunk |-> compute_chunk_layout_for_axis_shape(larg.stride, larg.extent)]
    /\ UNCHANGED <<larg, h5Vars, frameVars, nsVars, readVars, catVars, maskedVars>>

(***************************************************************************)
(* maybe_open_h5 and make_dask_chunk                                       *)
(***************************************************************************)
Tasks == 1..NTasks

NewFile == [open |-> TRUE, opens |-> 1, closes |-> 0, users |-> {}]

\* A process-wide connection shared by every call.
ReuseFirstFile(fs) == 1

\* h5py.File(path, "r"): a connection of its own for every call.
h5py_File(fs) == Len(fs) + 1

\* A close that follows the yield without try/finally.
CloseOnlyOnSuccess(f, failed) ==
    IF failed THEN f ELSE [f EXCEPT !.open = FALSE, !.closes = @ + 1]

\* file.close() in the finally clause: runs whatever way the scope is left.
file_close(f, failed) == [f EXCEPT !.open = FALSE, !.closes = @ + 1]

InitH5 ==
    /\ pc = [t \in Tasks |-> "idle"]
    /\ path_or_group = [t \in Tasks |-> "Path"]
    /\ block_info = [t \in Tasks |-> "info"]
    /\ file = [t \in Tasks |-> 0]
    /\ how = [t \in Tasks |-> "none"]
    /\ files = <<>>
    /\ store = [open |-> TRUE, closes |-> 0, users |-> {}]

\* make_dask_chunk is called by the graph engine; without block info it raises
\* before the scope is entered.
Call(t) ==
    /\ pc[t] = "idle"
    /\ \E pg \in {"Path", "ZarrGroup"}, bi \in {"None", "info"} :
        /\ path_or_group' = [path_or_group EXCEPT ![t] = pg]
        /\ block_info' = [block_info EXCEPT ![t] = bi]
        /\ IF bi = "None"
           THEN /\ pc' = [pc EXCEPT ![t] = "raised"]
                /\ how' = [how EXCEPT ![t] = "no_block_info"]
           ELSE /\ pc' = [pc EXCEPT ![t] = "enter"]
                /\ how' = how
    /\ UNCHANGED <<file, files, store, layoutVars, frameVars, nsVars, readVars, catVars, maskedVars>>

\* maybe_open_h5 up to its yield expression: a handle that is not a Path is
\* yielded as it is; a Path is opened.
Enter(t) ==
    /\ pc[t] = "enter"
    /\ IF path_or_group[t] # "Path"
       THEN /\ pc' = [pc EXCEPT ![t] = "body"]
            /\ UNCHANGED <<file, files>>
       ELSE LET id == h5py_File(files) IN
            /\ file' = [file EXCEPT ![t] = id]
            /\ files' = IF id > Len(files)
                        THEN Append(files, NewFile)
                        ELSE [files EXCEPT ![id].open = TRUE, ![id].opens = @ + 1]
            /\ pc' = [pc EXCEPT ![t] = "lookup"]
    /\ UNCHANGED <<path_or_group, block_info, how, store, layoutVars, frameVars, nsVars, readVars, catVars, maskedVars>>

\* file[elem_name], evaluated inside the try block: it may raise.
Lookup(t) ==
    /\ pc[t] = "lookup"
    /\ \/ /\ files[file[t]].open
          /\ pc' = [pc EXCEPT ![t] = "body"]
          /\ how' = how
       \/ /\ pc' = [pc EXCEPT ![t] = "finally"]
          /\ how' = [how EXCEPT ![t] = "lookup_failure"]
    /\ files' = [files EXCEPT ![file[t]].users = @ \cup {t}]
    /\ UNCHANGED <<path_or_group, block_info, file, store, layoutVars, frameVars, nsVars, readVars, catVars, maskedVars>>

\* The body of the with statement: wrap(f) and mtx[idx].  It returns the chunk,
\* or it raises (a read error, or the engine abandoning the computation).
Body(t) ==
    /\ pc[t] = "body"
    /\ \E ok \in BOOLEAN :
        /\ ok => IF path_or_group[t] = "Path" THEN files[file[t]].open ELSE store.open
        /\ how' = [how EXCEPT ![t] = IF ok THEN "normal" ELSE "body_failure"]
        /\ IF path_or_group[t] = "Path"
           THEN /\ pc' = [pc EXCEPT ![t] = "finally"]
                /\ files' = [files EXCEPT ![file[t]].users = @ \cup {t}]
                /\ store' = store
           ELSE /\ pc' = [pc EXCEPT ![t] = IF ok THEN "returned" ELSE "raised"]
                /\ store' = [store EXCEPT !.users = @ \cup {t}]
                /\ files' = files
    /\ UNCHANGED <<path_or_group, block_info, file, layoutVars, frameVars, nsVars, readVars, catVars, maskedVars>>

\* The finally clause of maybe_open_h5, then the return or the re-raise.
Finally(t) ==
    /\ pc[t] = "finally"
    /\ files' = [files EXCEPT ![file[t]] = file_close(@, how[t] # "normal")]
    /\ pc' = [pc EXCEPT ![t] = IF how[t] = "normal" THEN "returned" ELSE "raised"]
    /\ UNCHANGED <<path_or_group, block_info, file, how, store, layoutVars, frameVars, nsVars, readVars, catVars, maskedVars>>

(***************************************************************************)
(* The lazy array readers                                                  *)
(***************************************************************************)
DEFAULT_STRIDE == 1000

Extents == (0..MaxDim) \cup {ExampleCols, ExampleRows, BigExtent}
ChunkVals == {-1} \cup (Extents \ {0})
Shapes(rank) == [1..rank -> Extents]
Overrides == UNION {[1..r -> ChunkVals] : r \in 1..3}
NoChunks == [given |-> FALSE, val |-> <<>>]

SparseEncodings == {"csr_matrix", "csc_matrix"}
DenseEncodings == {"array", "string-array"}

Error(kind) == [kind |-> "error", err |-> kind, layout |-> <<>>]
Deferred(chunk_layout) == [kind |-> "deferred", err |-> "", layout |-> chunk_layout]
NoResult == [kind |-> "none", err |-> "", layout |-> <<>>]

\* (1, 0) if is_csc else (0, 1), as 1-based positions.
major_dim(is_csc) == IF is_csc THEN 2 ELSE 1
minor_dim(is_csc) == IF is_csc THEN 1 ELSE 2

\* A reader that accepts any minor-axis entry.
MinorNeverChecked(c, shape, is_csc) == FALSE

\* chunks[minor_dim] != shape[minor_dim]
MinorAxisChunked(c, shape, is_csc) ==
    c[minor_dim(is_csc)] # shape[minor_dim(is_csc)]

read_sparse_as_dask(e, c) ==
    LET shape == e.shape
        is_csc == e.enc = "csc_matrix"
    IN  IF c.given /\ Len(c.val) # 2 THEN Error("ValueError")
        ELSE IF c.given /\ MinorAxisChunked(c.val, shape, is_csc) THEN Error("ValueError")
        ELSE LET stride == IF c.given THEN c.val[major_dim(is_csc)] ELSE DEFAULT_STRIDE
                 shape_minor == IF is_csc THEN shape[1] ELSE shape[2]
                 shape_major == IF is_csc THEN shape[2] ELSE shape[1]
                 chunks_major == compute_chunk_layout_for_axis_shape(stride, shape_major)
                 chunks_minor == <<shape_minor>>
             IN  Deferred(IF is_csc THEN <<chunks_minor, chunks_major>>
                                    ELSE <<chunks_major, chunks_minor>>)

read_h5_array(e, c) ==
    LET shape == e.shape
        cs == IF c.given THEN c.val ELSE TupleTimes(DEFAULT_STRIDE, Len(shape))
    IN  IF Len(cs) < Len(shape) THEN Error("IndexError")
        ELSE Deferred([i \in 1..Len(shape) |->
                          compute_chunk_layout_for_axis_shape(cs[i], shape[i])])

\* dask's normalisation of a chunks argument against a known shape (da.from_array,
\* da.from_zarr): one entry per axis, -1 for the full extent; a flat tuple given
\* for a one-dimensional array is taken as that axis's block sizes.
dask_blocks(c, extent) ==
    IF c = -1 \/ extent = 0 THEN <<extent>>
    ELSE compute_chunk_layout_for_axis_shape(c, extent)

dask_normalize_chunks(cs, shape) ==
    IF Len(shape) = 1 /\ Len(cs) > 1
    THEN IF (\A i \in 1..Len(cs) : cs[i] > 0) /\ SumSeq(cs) = shape[1]
         THEN Deferred(<<cs>>) ELSE Error("ValueError")
    ELSE IF Len(cs) # Len(shape) THEN Error("ValueError")
    ELSE Deferred([i \in 1..Len(shape) |-> dask_blocks(cs[i], shape[i])])

\* read_dataset(elem): the eager reader, one read of the whole dataset.
read_dataset(n) == n + 1

read_h5_string_array(e, c) ==
    dask_normalize_chunks(IF c.given THEN c.val
                          ELSE TupleTimes(DEFAULT_STRIDE, Len(e.shape)), e.shape)

read_zarr_array(e, c) ==
    dask_normalize_chunks(IF c.given THEN c.val
                          ELSE TupleTimes(e.zchunk, Len(e.shape)), e.shape)

InitReadIdle ==
    /\ elem = [backend |-> "h5", enc |-> "array", shape |-> <<0>>, zchunk |-> 1]
    /\ chunks = NoChunks
    /\ rpc = "start"
    /\ result = NoResult
    /\ constructed = 0
    /\ bulk_reads = 0
    /\ nmat = 0

\* An element as the registry hands it to a reader: a sparse group declares a
\* two-dimensional shape, a dense array has one or two axes.  An override has one
\* to three entries; -1 is given for a sparse matrix only, a dense override holds
\* block sizes.
InitRead ==
    /\ \E b \in {"h5", "zarr"}, enc \in SparseEncodings \cup DenseEncodings,
          rank \in 1..2 :
        /\ enc \in SparseEncodings => rank = 2
        /\ \E sh \in Shapes(rank), z \in 1..2 :
            /\ b = "h5" => z = 1
            /\ enc \in SparseEncodings => z = 1
            /\ elem = [backend |-> b, enc |-> enc, shape |-> sh, zchunk |-> z]
    /\ chunks \in {NoChunks} \cup {[given |-> TRUE, val |-> v] : v \in Overrides}
    /\ elem.enc \in DenseEncodings =>
          \A i \in 1..Len(chunks.val) : chunks.val[i] > 0
    /\ rpc = "start"
    /\ result = NoResult
    /\ constructed = 0
    /\ bulk_reads = 0
    /\ nmat = 0

Return(r) ==
    /\ result' = r
    /\ rpc' = IF r.kind = "deferred" THEN "returned" ELSE "raised"
    /\ constructed' = IF r.kind = "deferred" THEN constructed + 1 ELSE constructed

\* Registered for (H5Group | ZarrGroup, csr_matrix | csc_matrix).
ReadSparseAsDask ==
    /\ rpc = "start"
    /\ elem.enc \in SparseEncodings
    /\ Return(read_sparse_as_dask(elem, chunks))
    /\ UNCHANGED <<elem, chunks, bulk_reads, nmat, layoutVars, frameVars, nsVars, h5Vars, catVars, maskedVars>>

\* Registered for (H5Array, string-array): read_dataset(elem) is evaluated as the
\* argument of da.from_array.
ReadH5StringArray ==
    /\ rpc = "start"
    /\ elem.backend = "h5" /\ elem.enc = "string-array"
    /\ bulk_reads' = read_dataset(bulk_reads)
    /\ Return(read_h5_string_array(elem, chunks))
    /\ UNCHANGED <<elem, chunks, nmat, layoutVars, frameVars, nsVars, h5Vars, catVars, maskedVars>>

\* Registered for (H5Array, array).
ReadH5Array ==
    /\ rpc = "start"
    /\ elem.backend = "h5" /\ elem.enc = "array"
    /\ Return(read_h5_array(elem, chunks))
    /\ UNCHANGED <<elem, chunks, bulk_reads, nmat, layoutVars, frameVars, nsVars, h5Vars, catVars, maskedVars>>

\* Registered for (ZarrArray, array | string-array).
ReadZarrArray ==
    /\ rpc = "start"
    /\ elem.backend = "zarr" /\ elem.enc \in DenseEncodings
    /\ Return(read_zarr_array(elem, chunks))
    /\ UNCHANGED <<elem, chunks, bulk_reads, nmat, layoutVars, frameVars, nsVars, h5Vars, catVars, maskedVars>>

\* The graph engine computes one block of the returned array.  The array built
\* by read_h5_string_array holds its data in memory; every other one reads the
\* block from storage.
Materialize ==
    /\ rpc = "returned"
    /\ nmat < MaxMaterialize
    /\ nmat' = nmat + 1
    /\ bulk_reads' = IF elem.backend = "h5" /\ elem.enc = "string-array"
                     THEN bulk_reads ELSE bulk_reads + 1
    /\ UNCHANGED <<elem, chunks, rpc, result, constructed, layoutVars, frameVars, nsVars, h5Vars, catVars, maskedVars>>

(***************************************************************************)
(* CategoricalArray                                                        *)
(***************************************************************************)
CatLabels == <<"a", "b", "c", "d", "e", "f">>

\* A key selects the positions lo..hi of the stored array, at least one.
Keys(n) == {k \in (1..n) \X (1..n) : k[2] >= k[1]}
Index(arr, key) == SubSeq(arr, key[1], key[2])

Range(sq) == {sq[i] : i \in 1..Len(sq)}

\* pd.Categorical.from_codes: the codes against the full list of categories.
from_codes(codes, categories, ordered) ==
    [codes |-> codes, categories |-> categories, ordered |-> ordered]

\* Categorical.remove_unused_categories: the categories some code refers to, in
\* their order, and the codes renumbered against them.
remove_unused_categories(c) ==
    LET used == {i \in 1..Len(c.categories) : (i - 1) \in Range(c.codes)}
        Rank(i) == Cardinality({j \in used : j < i})
        keep == SelectSeq([i \in 1..Len(c.categories) |-> i], LAMBDA i : i \in used)
    IN  [codes |-> [n \in 1..Len(c.codes) |-> Rank(c.codes[n] + 1)],
         categories |-> [n \in 1..Len(keep) |-> c.categories[keep[n]]],
         ordered |-> c.ordered]

\* The values of a categorical: categories[code] for each code.
CatValues(c) == [n \in 1..Len(c.codes) |-> c.categories[c.codes[n] + 1]]

\* CategoricalArray.categories: the value cached on the wrapper if there is
\* one, else the categories array read from storage.
categories(self, stored) ==
    IF self.cached THEN self.cache ELSE stored.categories

\* A property that computes its value on every access and keeps nothing.
PlainProperty(self, value) == self

\* functools.cached_property: the computed value is kept on the wrapper.
cached_property(self, value) == [self EXCEPT !.cached = TRUE, !.cache = value]

\* CategoricalArray.__getitem__: index the codes, build the categorical against
\* the full categories, then prune if the process-wide setting is on.
CategoricalArray_getitem(self, stored, key, should_remove_unused_categories) ==
    LET codes == Index(stored.codes, key)
        categorical_array == from_codes(codes, categories(self, stored), self.ordered)
    IN  IF should_remove_unused_categories
        THEN remove_unused_categories(categorical_array)
        ELSE categorical_array

NoCat == [built |-> FALSE, drop_unused_cats |-> FALSE, ordered |-> FALSE,
          shape |-> 0, cached |-> FALSE, cache |-> <<>>, fetches |-> 0,
          dtype_cached |-> FALSE, dtype_reads |-> 0]
NoCatOut == [n |-> 0, key |-> <<1, 0>>, codes |-> <<>>, categories |-> <<>>,
             ordered |-> FALSE, against |-> <<>>]

InitCatIdle ==
    /\ settings = FALSE
    /\ cat_store = [codes |-> <<>>, categories |-> <<"a">>, ordered |-> FALSE]
    /\ cat = NoCat
    /\ cat_out = NoCatOut

\* A stored categorical column of one to MaxLen rows.
InitCat ==
    /\ settings \in BOOLEAN
    /\ \E nc \in 1..MaxCats, len \in 1..MaxLen, o \in BOOLEAN :
         \E cs \in [1..len -> 0..(nc - 1)] :
            cat_store = [codes |-> cs, categories |-> SubSeq(CatLabels, 1, nc),
                         ordered |-> o]
    /\ cat = NoCat
    /\ cat_out = NoCatOut

\* The process-wide flag is changed by the user at any time.
SetSetting ==
    /\ settings' = ~settings
    /\ UNCHANGED <<cat_store, cat, cat_out, layoutVars, frameVars, nsVars, h5Vars, readVars, maskedVars>>

\* CategoricalArray.__init__: drop_unused_cats arrives in **kwargs.
CategoricalArray_init(drop_unused_cats) ==
    /\ ~cat.built
    /\ cat' = [built |-> TRUE, drop_unused_cats |-> drop_unused_cats,
               ordered |-> cat_store.ordered, shape |-> Len(cat_store.codes),
               cached |-> FALSE, cache |-> <<>>, fetches |-> 0,
               dtype_cached |-> FALSE, dtype_reads |-> 0]
    /\ UNCHANGED <<settings, cat_store, cat_out, layoutVars, frameVars, nsVars, h5Vars, readVars, maskedVars>>

\* The wrapper constructed by a caller, with either value of the flag.
ConstructCategorical == \E d \in BOOLEAN : CategoricalArray_init(d)

\* read_categorical: the registry's reader passes the setting's current value.
ReadCategorical == CategoricalArray_init(settings)

\* One index operation; the categories property is fetched on first use.
CatGetItem ==
    /\ cat.built
    /\ cat_out.n < MaxIndexOps
    /\ \E key \in Keys(cat.shape) :
        LET r == CategoricalArray_getitem(cat, cat_store, key, settings)
        IN  cat_out' = [n |-> cat_out.n + 1, key |-> key, codes |-> r.codes,
                        categories |-> r.categories, ordered |-> r.ordered,
                        against |-> categories(cat, cat_store)]
    /\ cat' = [cached_property(cat, categories(cat, cat_store))
                  EXCEPT !.fetches = IF cat.cached THEN @ ELSE @ + 1]
    /\ UNCHANGED <<settings, cat_store, layoutVars, frameVars, nsVars, h5Vars, readVars, maskedVars>>

\* CategoricalArray.dtype: built from the stored categories array itself, not
\* from the categories property, and kept on the wrapper.
CatDtype ==
    /\ cat.built
    /\ cat' = [cat EXCEPT !.dtype_cached = TRUE,
                          !.dtype_reads = IF cat.dtype_cached THEN @ ELSE @ + 1]
    /\ UNCHANGED <<settings, cat_store, cat_out, layoutVars, frameVars, nsVars, h5Vars, readVars, maskedVars>>

(***************************************************************************)
(* MaskedArray                                                             *)
(***************************************************************************)
NullableTags == {"nullable-integer", "nullable-boolean"}
DtypeStrs == NullableTags \cup {"other"}

\* ZarrOrHDF5Wrapper.__init__(array): None is no ZarrArray, and None has no shape.
ZarrOrHDF5Wrapper_init(array_given) ==
    IF array_given THEN "ok" ELSE "AttributeError"

\* MaskedArray.__getitem__: self._mask is the wrapper object, never None.
MaskedArray_getitem(self, stored, key) ==
    LET values == Index(stored.values, key)
        mask == Index(stored.mask, key)
    IN  IF self.dtype_str = "nullable-integer"
        THEN [kind |-> "IntegerArray", values |-> values, mask |-> mask]
        ELSE IF self.dtype_str = "nullable-boolean"
        THEN [kind |-> "BooleanArray", values |-> values, mask |-> mask]
        ELSE [kind |-> "plain", values |-> values, mask |-> <<>>]

NoMasked == [state |-> "none", dtype_str |-> "other", mask_given |-> FALSE,
             shape |-> 0, mask_reads |-> 0]
NoMaskedOut == [n |-> 0, key |-> <<1, 0>>, kind |-> "none", values |-> <<>>,
                mask |-> <<>>]

InitMaskedIdle ==
    /\ null_store = [values |-> <<>>, has_mask |-> FALSE, mask |-> <<>>]
    /\ masked = NoMasked
    /\ masked_out = NoMaskedOut

\* A stored nullable column of one to MaxLen rows, with or without a mask child.
InitMasked ==
    /\ \E len \in 1..MaxLen, hm \in BOOLEAN :
         \E vs \in [1..len -> 0..1], ms \in [1..len -> BOOLEAN] :
            /\ ~hm => ms = [i \in 1..len |-> FALSE]
            /\ null_store = [values |-> vs, has_mask |-> hm, mask |-> ms]
    /\ masked = NoMasked
    /\ masked_out = NoMaskedOut

\* MaskedArray.__init__: the mask is wrapped first, then the values.
MaskedArray_init(dtype_str, mask_given) ==
    /\ masked.state = "none"
    /\ masked' = [state |-> IF ZarrOrHDF5Wrapper_init(mask_given) = "ok"
                            THEN "built" ELSE "raised",
                  dtype_str |-> dtype_str, mask_given |-> mask_given,
                  shape |-> Len(null_store.values), mask_reads |-> 0]
    /\ UNCHANGED <<null_store, masked_out, layoutVars, frameVars, nsVars, h5Vars, readVars, catVars>>

\* read_nullable, registered for the two nullable tags: mask is elem["mask"] if
\* the group has one, else None.
ReadNullable ==
    \E encoding_type \in NullableTags :
        MaskedArray_init(encoding_type, null_store.has_mask)

\* The wrapper constructed by a caller directly, with any tag, with or without
\* a mask (a mask can only be passed when the group stores one).
ConstructMasked ==
    \E dtype_str \in DtypeStrs, mask_given \in BOOLEAN :
        /\ mask_given => null_store.has_mask
        /\ MaskedArray_init(dtype_str, mask_given)

MaskedGetItem ==
    /\ masked.state = "built"
    /\ masked_out.n < MaxIndexOps
    /\ \E key \in Keys(masked.shape) :
        LET r == MaskedArray_getitem(masked, null_store, key)
        IN  masked_out' = [n |-> masked_out.n + 1, key |-> key, kind |-> r.kind,
                           values |-> r.values, mask |-> r.mask]
    /\ masked' = [masked EXCEPT !.mask_reads = @ + 1]
    /\ UNCHANGED <<null_store, layoutVars, frameVars, nsVars, h5Vars, readVars, catVars>>

(***************************************************************************)
(* read_dataframe                                                          *)
(***************************************************************************)
ColumnNames == {"x", "y", "obs_names"}
IndexNames == {"_index", "obs_names"}
\* The element's name in the store, as its "/" separators and path segments.
ElemNames == {<<"/", "obs">>, <<"/", "raw", "/", "var">>}
ValueKinds == {"DaskArray", "CategoricalArray", "MaskedArray"}

RECURSIVE Join(_)
Join(parts) == IF parts = <<>> THEN "" ELSE Head(parts) \o Join(Tail(parts))

\* f'{elem_name.replace("/", "")}_names'
index_label(elem_name) ==
    Join(SelectSeq(elem_name, LAMBDA part : part # "/")) \o "_names"

\* A dict keeps its keys in order of first insertion; assigning to a key that is
\* present replaces its value where it stands.
DictKeys(d) == [i \in 1..Len(d) |-> d[i].k]
DictHas(d, k) == \E i \in 1..Len(d) : d[i].k = k
DictGet(d, k) == d[CHOOSE i \in 1..Len(d) : d[i].k = k].v
DictSet(d, k, v) ==
    IF DictHas(d, k)
    THEN [i \in 1..Len(d) |-> IF d[i].k = k THEN [k |-> k, v |-> v] ELSE d[i]]
    ELSE Append(d, [k |-> k, v |-> v])

\* The object _reader.read_elem returns for child `col`, on its n-th read.
ReadObject(e, col, n) == [col |-> col, kind |-> e.kinds[col], read |-> n]
NoObject == [col |-> "", kind |-> "", read |-> 0]

Occurrences(sq, x) == Cardinality({i \in 1..Len(sq) : sq[i] = x})

\* d = {k: _reader.read_elem(v) for k, v in iter_object}
RECURSIVE ReadAll(_, _, _)
ReadAll(e, iter_object, n) ==
    IF n = 0 THEN <<>>
    ELSE LET k == iter_object[n]
         IN  DictSet(ReadAll(e, iter_object, n - 1), k,
                     ReadObject(e, k, Occurrences(SubSeq(iter_object, 1, n), k)))

\* The loop over d that fills d_with_xr.
RECURSIVE WithXr(_, _, _, _, _)
WithXr(e, d, index, label, n) ==
    IF n = 0 THEN <<>>
    ELSE LET k == d[n].k
             v == d[n].v
             sofar == WithXr(e, d, index, label, n - 1)
         IN  IF v.kind = "DaskArray" /\ k # e.index
             THEN DictSet(sofar, k, [role |-> "column", data |-> v, lazy |-> FALSE,
                                     coords |-> index, dims |-> label, name |-> k])
             ELSE IF v.kind \in {"CategoricalArray", "MaskedArray"} /\ k # e.index
             THEN DictSet(sofar, k, [role |-> "column", data |-> v, lazy |-> TRUE,
                                     coords |-> index, dims |-> label, name |-> k])
             ELSE IF k = e.index
             THEN DictSet(sofar, label, [role |-> "coordinate", data |-> v,
                                         lazy |-> FALSE, coords |-> v,
                                         dims |-> label, name |-> label])
             ELSE DictSet(sofar, k, [role |-> "passthrough", data |-> v,
                                     lazy |-> FALSE, coords |-> NoObject,
                                     dims |-> "", name |-> k])

read_dataframe(e) ==
    LET iter_object == e.column_order \o <<e.index>>
        d == ReadAll(e, iter_object, Len(iter_object))
        label == index_label(e.name)
        index == DictGet(d, e.index)
    IN  WithXr(e, d, index, label, Len(d))

NoFrame == [name |-> <<"/", "obs">>, column_order |-> <<>>, index |-> "_index",
            kinds |-> [c \in {"_index"} |-> "DaskArray"]]

InitFrameIdle ==
    /\ df_elem = NoFrame
    /\ df_pc = "start"
    /\ df_reads = [c \in {"_index"} |-> 0]
    /\ df_table = <<>>

\* A stored dataframe group: up to MaxCols distinctly named columns, an index
\* child that is not one of them, and the lazy value each child is read as.
InitFrame ==
    /\ \E len \in 0..MaxCols, name \in ElemNames, ix \in IndexNames :
         \E cols \in [1..len -> ColumnNames \ {ix}] :
            /\ \A i, j \in 1..len : i # j => cols[i] # cols[j]
            /\ \E kinds \in [Range(cols) \cup {ix} -> ValueKinds] :
                 /\ kinds[ix] = "DaskArray"
                 /\ df_elem = [name |-> name, column_order |-> cols, index |-> ix,
                               kinds |-> kinds]
    /\ df_pc = "start"
    /\ df_reads = [c \in DOMAIN df_elem.kinds |-> 0]
    /\ df_table = <<>>

ReadDataframe ==
    /\ df_pc = "start"
    /\ df_table' = read_dataframe(df_elem)
    /\ df_reads' = [c \in DOMAIN df_reads |->
                       Occurrences(df_elem.column_order \o <<df_elem.index>>, c)]
    /\ df_pc' = "returned"
    /\ UNCHANGED <<df_elem, layoutVars, h5Vars, readVars, catVars, maskedVars, nsVars>>

(***************************************************************************)
(* register_anndata_namespace and AccessorNameSpace                        *)
(***************************************************************************)
Instances == 1..NInstances

NoAccess == [on |-> "none", instance |-> 0, descriptor |-> 0, kind |-> "none",
             ret |-> 0, instantiated |-> FALSE]

InitNSIdle ==
    /\ ns_cls = 0
    /\ ns_reg = "none"
    /\ ns_objs = <<>>
    /\ ns_dict = [i \in Instances |-> 0]
    /\ ns_inits = [i \in Instances |-> 0]
    /\ ns_acc = [i \in Instances |-> 0]
    /\ ns_rets = [i \in Instances |-> {}]
    /\ ns_last = NoAccess

InitNS == InitNSIdle

\* _create_namespace(name, cls)(ns_class): the signature check and the reserved
\* name check raise before anything is set; otherwise the class attribute is
\* (re)bound to a fresh AccessorNameSpace holding ns_class.
CreateNamespace ==
    /\ ns_cls < MaxNamespaces
    /\ \E signature_ok \in BOOLEAN, reserved \in BOOLEAN :
         IF ~signature_ok
         THEN ns_reg' = "TypeError" /\ ns_cls' = ns_cls
         ELSE IF reserved
         THEN ns_reg' = "AttributeError" /\ ns_cls' = ns_cls
         ELSE /\ ns_reg' = IF ns_cls # 0 THEN "warned" ELSE "registered"
              /\ ns_cls' = ns_cls + 1
    /\ UNCHANGED <<ns_objs, ns_dict, ns_inits, ns_acc, ns_rets, ns_last>>
    /\ UNCHANGED <<layoutVars, h5Vars, readVars, catVars, maskedVars, frameVars>>

\* A __get__ that returns the new object without storing it on the instance.
NoSetattr(dict, instance, ns_instance) == dict

\* setattr(instance, self._accessor, ns_instance)
setattr(dict, instance, ns_instance) == [dict EXCEPT ![instance] = ns_instance]

\* adata.<name>: AccessorNameSpace defines __get__ only, so an entry in the
\* instance's __dict__ is found first; __get__ runs when there is none.
InstanceAccess(instance) ==
    /\ ns_cls # 0
    /\ ns_acc[instance] < MaxAccesses
    /\ ns_acc' = [ns_acc EXCEPT ![instance] = @ + 1]
    /\ IF ns_dict[instance] # 0
       THEN /\ ns_last' = [on |-> "instance", instance |-> instance,
                           descriptor |-> ns_cls, kind |-> "object",
                           ret |-> ns_dict[instance], instantiated |-> FALSE]
            /\ ns_rets' = [ns_rets EXCEPT ![instance] = @ \cup {ns_dict[instance]}]
            /\ UNCHANGED <<ns_objs, ns_dict, ns_inits>>
       ELSE LET ns_instance == Len(ns_objs) + 1
            IN  /\ ns_objs' = Append(ns_objs, [adata |-> instance, cls |-> ns_cls])
                /\ ns_inits' = [ns_inits EXCEPT ![instance] = @ + 1]
                /\ ns_dict' = setattr(ns_dict, instance, ns_instance)
                /\ ns_last' = [on |-> "instance", instance |-> instance,
                               descriptor |-> ns_cls, kind |-> "object",
                               ret |-> ns_instance,
                               instantiated |-> TRUE]
                /\ ns_rets' = [ns_rets EXCEPT ![instance] = @ \cup {ns_instance}]
    /\ UNCHANGED <<ns_cls, ns_reg>>
    /\ UNCHANGED <<layoutVars, h5Vars, readVars, catVars, maskedVars, frameVars>>

\* AnnData.<name>: __get__(None, cls) returns the namespace class.
ClassAccess ==
    /\ ns_cls # 0
    /\ ns_last' = [on |-> "class", instance |-> 0, descriptor |-> ns_cls,
                   kind |-> "class", ret |-> ns_cls, instantiated |-> FALSE]
    /\ UNCHANGED <<ns_cls, ns_reg, ns_objs, ns_dict, ns_inits, ns_acc, ns_rets>>
    /\ UNCHANGED <<layoutVars, h5Vars, readVars, catVars, maskedVars, frameVars>>

(***************************************************************************)
(* Specifications                                                          *)
(***************************************************************************)
InitSpecLayout ==
    InitLayout /\ InitH5 /\ InitReadIdle /\ InitCatIdle /\ InitMaskedIdle /\ InitFrameIdle
    /\ InitNSIdle

NextLayout == ComputeLayout

SpecLayout == InitSpecLayout /\ [][NextLayout]_vars

InitSpecH5 ==
    InitLayoutIdle /\ InitH5 /\ InitReadIdle /\ InitCatIdle /\ InitMaskedIdle /\ InitFrameIdle
    /\ InitNSIdle

NextH5 ==
    \E t \in Tasks : Call(t) \/ Enter(t) \/ Lookup(t) \/ Body(t) \/ Finally(t)

SpecH5 == InitSpecH5 /\ [][NextH5]_vars

InitSpecRead ==
    InitLayoutIdle /\ InitH5 /\ InitRead /\ InitCatIdle /\ InitMaskedIdle /\ InitFrameIdle
    /\ InitNSIdle

NextRead ==
    \/ ReadSparseAsDask
    \/ ReadH5StringArray
    \/ ReadH5Array
    \/ ReadZarrArray
    \/ Materialize

SpecRead == InitSpecRead /\ [][NextRead]_vars

InitSpecCat ==
    InitLayoutIdle /\ InitH5 /\ InitReadIdle /\ InitCat /\ InitMaskedIdle /\ InitFrameIdle
    /\ InitNSIdle

NextCat ==
    \/ SetSetting
    \/ ConstructCategorical
    \/ ReadCategorical
    \/ CatGetItem
    \/ CatDtype

SpecCat == InitSpecCat /\ [][NextCat]_vars

InitSpecMasked ==
    InitLayoutIdle /\ InitH5 /\ InitReadIdle /\ InitCatIdle /\ InitMasked /\ InitFrameIdle
    /\ InitNSIdle

NextMasked ==
    \/ ReadNullable
    \/ ConstructMasked
    \/ MaskedGetItem

SpecMasked == InitSpecMasked /\ [][NextMasked]_vars

InitSpecFrame ==
    InitLayoutIdle /\ InitH5 /\ InitReadIdle /\ InitCatIdle /\ InitMaskedIdle /\ InitFrame
    /\ InitNSIdle

NextFrame == ReadDataframe

SpecFrame == InitSpecFrame /\ [][NextFrame]_vars

InitSpecNS ==
    InitLayoutIdle /\ InitH5 /\ InitReadIdle /\ InitCatIdle /\ InitMaskedIdle /\ InitFrameIdle
    /\ InitNS

NextNS ==
    \/ CreateNamespace
    \/ \E instance \in Instances : InstanceAccess(instance)
    \/ ClassAccess

SpecNS == InitSpecNS /\ [][NextNS]_vars

(***************************************************************************)
(* Properties                                                              *)
(***************************************************************************)
InScope(t) == pc[t] \in {"lookup", "body", "finally"}
Finished(t) == pc[t] \in {"returned", "raised"}
InProgress(t) == pc[t] \in {"enter", "lookup", "body", "finally"}
OpenFiles == {i \in 1..Len(files) : files[i].open}

\* C1: given a Path, maybe_open_h5 opens one fresh read-only connection, which is
\* open and not yet closed while the scope is live and closed exactly once after
\* the scope is left, whether by normal exit, by a failure in the body or by a
\* failure of file[elem_name]; given an open store handle it yields that handle
\* and never closes it.
C1_ScopedClose ==
    /\ \A t \in Tasks :
        (path_or_group[t] = "Path" /\ (InScope(t) \/ (Finished(t) /\ how[t] # "no_block_info"))) =>
            /\ file[t] \in 1..Len(files)
            /\ files[file[t]].opens = 1
            /\ InScope(t) => files[file[t]].open /\ files[file[t]].closes = 0
            /\ Finished(t) => ~files[file[t]].open /\ files[file[t]].closes = 1
    /\ \A t \in Tasks :
        (path_or_group[t] = "ZarrGroup" /\ (pc[t] = "body" \/ Finished(t))) => file[t] = 0
    /\ store.open /\ store.closes = 0

\* C1 witness: all three exit paths of the single-file scope have been taken, each
\* connection closed once, and a store handle has been yielded and used.
C1_Witness ==
    /\ \E t \in Tasks : path_or_group[t] = "Path" /\ pc[t] = "raised"
                        /\ how[t] = "body_failure" /\ files[file[t]].closes = 1
    /\ \E t \in Tasks : path_or_group[t] = "Path" /\ pc[t] = "raised"
                        /\ how[t] = "lookup_failure" /\ files[file[t]].closes = 1
    /\ \E t \in Tasks : path_or_group[t] = "Path" /\ pc[t] = "returned"
                        /\ files[file[t]].closes = 1

\* C2: under every interleaving of make_dask_chunk calls on single-file arrays,
\* failed and abandoned ones included, a materialization (a call given block
\* info) performs exactly one open/close cycle on a connection of its own, no
\* connection is used by two materializations, the open connections never
\* outnumber the materializations in progress, and none is open once all ended.
C2_OwnConnection ==
    /\ \A i \in 1..Len(files) :
        /\ Cardinality(files[i].users) <= 1
        /\ files[i].opens = 1
        /\ files[i].closes <= 1
        /\ Cardinality({t \in Tasks : file[t] = i}) = 1
    /\ Cardinality(OpenFiles) <= Cardinality({t \in Tasks : InProgress(t)})
    /\ (\A t \in Tasks : ~InProgress(t)) => OpenFiles = {}
    /\ \A t \in Tasks :
        (path_or_group[t] = "Path" /\ Finished(t)) =>
            IF block_info[t] = "info"
            THEN /\ file[t] \in 1..Len(files)
                 /\ files[file[t]].users = {t}
                 /\ files[file[t]].opens = 1 /\ files[file[t]].closes = 1
            ELSE file[t] = 0

\* C2 witness: every call has ended, at least two were single-file
\* materializations with connections of their own, one returned and one raised.
C2_Witness ==
    /\ \A t \in Tasks : Finished(t)
    /\ Len(files) >= 2
    /\ \E t \in Tasks : path_or_group[t] = "Path" /\ pc[t] = "returned"
    /\ \E t \in Tasks : path_or_group[t] = "Path" /\ pc[t] = "raised"
                        /\ how[t] = "body_failure"

\* C3: for stride > 0 and extent >= 0 the layout sums to extent, every entry but
\* the last equals stride, the last lies in (0, stride], the layout is empty iff
\* extent = 0, and it is extent div stride copies of stride followed by
\* extent mod stride iff that remainder is positive.
C3_Layout ==
    lout.done =>
        LET c == lout.chunk
            s == larg.stride
            e == larg.extent
        IN  /\ SumSeq(c) = e
            /\ \A i \in 1..(Len(c) - 1) : c[i] = s
            /\ Len(c) > 0 => (c[Len(c)] > 0 /\ c[Len(c)] <= s)
            /\ (c = <<>>) <=> (e = 0)
            /\ Len(c) = (e \div s) + (IF e % s > 0 THEN 1 ELSE 0)
            /\ \A i \in 1..(e \div s) : c[i] = s
            /\ e % s > 0 => c[Len(c)] = e % s

\* C3 witness: a computed layout with several full strides and a remainder.
C3_Witness ==
    lout.done /\ larg.extent % larg.stride > 0 /\ Len(lout.chunk) >= 3

IsSparse == elem.enc \in SparseEncodings
MinorAxis == IF elem.enc = "csr_matrix" THEN 2 ELSE 1

\* C4: every sparse or dense lazy read that returns a deferred array has a chunk
\* partition with one entry per axis whose sizes sum to the axis extent; a CSR
\* read whose major-axis override is -1 and whose minor-axis override is the full
\* extent returns such an array.
C4_PartitionSums ==
    /\ rpc = "returned" =>
        /\ Len(result.layout) = Len(elem.shape)
        /\ \A i \in 1..Len(elem.shape) : SumSeq(result.layout[i]) = elem.shape[i]
    /\ (/\ rpc # "start" /\ elem.enc = "csr_matrix" /\ chunks.given
        /\ Len(chunks.val) = 2 /\ chunks.val[1] = -1 /\ chunks.val[2] = elem.shape[2])
       => rpc = "returned"

C6_RankChecked ==
    (rpc # "start" /\ chunks.given /\ Len(chunks.val) # Len(elem.shape))
        => (rpc = "raised" /\ constructed = 0)

\* C7: no lazy array reader reads bulk element data at dispatch: until a chunk is
\* materialized the element's data has not been read.
C7_NoBulkReadAtDispatch ==
    nmat = 0 => bulk_reads = 0

Selected == Index(cat_store.codes, cat_out.key)

\* C8: a CategoricalArray constructed with drop_unused_cats=True returns, for
\* every key, a categorical whose category set is exactly the categories the
\* selected codes refer to; constructed with the flag off it returns one with the
\* full category list; either way the values are categories[codes[key]].
C8_DropUnusedCats ==
    cat_out.n > 0 =>
        /\ cat.drop_unused_cats =>
              Range(cat_out.categories) =
                  {cat_store.categories[c + 1] : c \in Range(Selected)}
        /\ ~cat.drop_unused_cats => cat_out.categories = cat_store.categories
        /\ CatValues(cat_out) =
              [n \in 1..Len(Selected) |-> cat_store.categories[Selected[n] + 1]]

\* C9: a MaskedArray given no mask (mask=None) can be constructed and indexed:
\* construction does not raise, and every index operation returns the values of
\* the key as a plain typed value, with no mask read.
C9_NoMaskPlainValues ==
    (masked.state # "none" /\ ~masked.mask_given) =>
        /\ masked.state = "built"
        /\ masked_out.n > 0 =>
              /\ masked_out.kind = "plain"
              /\ masked_out.values = Index(null_store.values, masked_out.key)
              /\ masked.mask_reads = 0

\* C10: a MaskedArray whose dtype tag is neither nullable-integer nor
\* nullable-boolean never yields a value: no index operation on it returns.
C10_OtherTagNeverYields ==
    (masked.state # "none" /\ masked.dtype_str \notin NullableTags) =>
        masked_out.n = 0

FrameLabel == index_label(df_elem.name)
FrameIndex == ReadObject(df_elem, df_elem.index, 1)

\* C11: read_dataframe over a group with column-order C and index column I
\* returns a table whose entries are exactly the columns of C, in the declared
\* order, followed last by one coordinate entry keyed by the derived label and
\* holding the stored index; the index child is read once and that one object is
\* the row coordinate of every column; no entry is keyed by I unless I is the
\* derived label.
C11_TableEntries ==
    df_pc = "returned" =>
        LET C == df_elem.column_order
            n == Len(C)
        IN  /\ DictKeys(df_table) = C \o <<FrameLabel>>
            /\ \A i \in 1..n :
                  i <= Len(df_table) =>
                    /\ df_table[i].v.role = "column"
                    /\ df_table[i].v.data.col = C[i]
                    /\ df_table[i].v.coords = FrameIndex
            /\ df_table[Len(df_table)].v.role = "coordinate"
            /\ df_table[Len(df_table)].v.data = FrameIndex
            /\ df_reads[df_elem.index] = 1
            /\ df_elem.index # FrameLabel => ~DictHas(df_table, df_elem.index)

\* C12: a registered namespace is instantiated with the AnnData object on the
\* first attribute access on an instance and cached there: over any sequence of
\* accesses on one instance the initializer has run exactly once and every access
\* returned the same object, which was built with that instance; distinct
\* instances hold distinct objects; access on the class returns the namespace
\* class and instantiates nothing.
C12_InitOnceThenCached ==
    /\ \A i \in Instances :
          /\ ns_acc[i] = 0 => ns_inits[i] = 0 /\ ns_dict[i] = 0 /\ ns_rets[i] = {}
          /\ ns_acc[i] > 0 =>
                /\ ns_inits[i] = 1
                /\ ns_dict[i] \in 1..Len(ns_objs)
                /\ ns_rets[i] = {ns_dict[i]}
                /\ ns_objs[ns_dict[i]].adata = i
    /\ \A i, j \in Instances :
          (i # j /\ ns_acc[i] > 0 /\ ns_acc[j] > 0) => ns_dict[i] # ns_dict[j]
    /\ Len(ns_objs) = Cardinality({i \in Instances : ns_acc[i] > 0})
    /\ ns_last.on = "class" =>
          /\ ns_last.kind = "class"
          /\ ns_last.ret = ns_last.descriptor
          /\ ~ns_last.instantiated

C12_Witness ==
    /\ \A i \in Instances : ns_acc[i] = MaxAccesses /\ ns_inits[i] = 1
    /\ ns_last.on = "class"

\* The wrapper's categories cache after the index operations made so far.
CatCacheState ==
    /\ ~cat.built => ~cat.cached /\ cat.fetches = 0
    /\ (cat.built /\ cat_out.n = 0) => ~cat.cached /\ cat.fetches = 0
    /\ cat_out.n > 0 =>
          /\ cat.cached
          /\ cat.fetches = 1
          /\ cat.cache = cat_store.categories
          /\ cat_out.against = cat.cache

\* What a step leaves alone once the wrapper is constructed.
CatFrozen ==
    cat.built =>
        /\ cat'.built
        /\ cat_store' = cat_store
        /\ cat'.ordered = cat.ordered
        /\ cat'.shape = cat.shape
        /\ cat'.drop_unused_cats = cat.drop_unused_cats
        /\ cat.cached => cat'.cached /\ cat'.cache = cat.cache

\* C13: a CategoricalArray is codes-only until its first index operation and
\* categories-cached from then on: the categories array is not fetched at
\* construction, is fetched exactly once if an index operation ran, every index
\* result is built against that cached value, a cached value is never dropped or
\* replaced, and codes, ordered flag and shape never change after construction.
C13_CategoriesFetchedOnce == [](CatCacheState) /\ [][CatFrozen]_vars

C13_Witness ==
    /\ cat_out.n = MaxIndexOps
    /\ cat.cached
    /\ cat.fetches = 1
    /\ cat_out.against = cat_store.categories

====
